---------------------------- MODULE Spec2Model ----------------------------
(***************************************************************************)
(* Model of src/web_app.py: the reference tables, run_simulation and the   *)
(* Streamlit script that re-runs it after every widget change.             *)
(*                                                                         *)
(* Number representation.  The Python code computes in IEEE doubles; the   *)
(* model computes the same quantities in exact fixed point:                *)
(*   - Price, Marketing, Attendance, Revenue, the four costs, Total Cost   *)
(*     and Profit are integers (Price and Marketing are integers in the    *)
(*     code: st.slider / st.number_input with integer arguments);          *)
(*   - DemandMult is held in tenths (0.7 -> 7);                            *)
(*   - base_demand and risk_demand are held in thousandths, rounded down;  *)
(*   - Satisfaction is held in tenths (50.5 -> 505);                       *)
(*   - Score is held in units of 1/4000 (75.25 -> 301000);                 *)
(*   - Crowding (a percentage) is held in hundredths (100% -> 10000).      *)
(* The one place where double rounding changes an integer result, the      *)
(* product base_demand * 0.7, is modelled in risk_demand.                  *)
(***************************************************************************)
EXTENDS Integers, FiniteSets, Sequences, TLC

VARIABLES VENUES, CATERING, STAFFING, RISKS, inputs, results

vars == <<VENUES, CATERING, STAFFING, RISKS, inputs, results>>

tables == <<VENUES, CATERING, STAFFING, RISKS>>

----------------------------------------------------------------------------
(* Reference tables as the module-level dict literals define them.         *)

VENUES_LITERAL ==
    [l \in {"Grand Hall", "Tech Hub", "City Center", "Open Grounds"} |->
        CASE l = "Grand Hall"   -> [Capacity |-> 500,  FixedCost |-> 5000,  Vibe |-> 8]
          [] l = "Tech Hub"     -> [Capacity |-> 1000, FixedCost |-> 12000, Vibe |-> 6]
          [] l = "City Center"  -> [Capacity |-> 2000, FixedCost |-> 25000, Vibe |-> 9]
          [] l = "Open Grounds" -> [Capacity |-> 5000, FixedCost |-> 40000, Vibe |-> 7]]

CATERING_LITERAL ==
    [l \in {"Basic Snacks", "Standard Buffet", "Premium Gourmet"} |->
        CASE l = "Basic Snacks"    -> [Cost |-> 15, Quality |-> 2]
          [] l = "Standard Buffet" -> [Cost |-> 35, Quality |-> 6]
          [] l = "Premium Gourmet" -> [Cost |-> 60, Quality |-> 9]]

STAFFING_LITERAL ==
    [l \in {"Skeleton Crew", "Standard", "Premium Service"} |->
        CASE l = "Skeleton Crew"   -> [Ratio |-> 1, CostPer |-> 200]
          [] l = "Standard"        -> [Ratio |-> 2, CostPer |-> 250]
          [] l = "Premium Service" -> [Ratio |-> 4, CostPer |-> 300]]

\* DemandMult in tenths: 1.0, 0.7, 0.6, 1.5.
RISKS_LITERAL ==
    [l \in {"None (Normal)", "Heavy Rain", "Competitor Event", "Viral Buzz"} |->
        CASE l = "None (Normal)"    -> [DemandMult |-> 10, SatPenalty |-> 0]
          [] l = "Heavy Rain"       -> [DemandMult |-> 7,  SatPenalty |-> -10]
          [] l = "Competitor Event" -> [DemandMult |-> 6,  SatPenalty |-> 0]
          [] l = "Viral Buzz"       -> [DemandMult |-> 15, SatPenalty |-> 5]]

----------------------------------------------------------------------------
(* Widget ranges of the sidebar.                                           *)

PriceMin == 50
PriceMax == 500
PriceStep == 10
PriceDefault == 250
MarketingMin == 0
MarketingMax == 100000
MarketingDefault == 20000

(* Bounds of the model: the sampled prices are PriceMin + PriceStride * i  *)
(* for i in 0..MaxPriceIdx, the sampled budgets MarketingStride * i for i  *)
(* in 0..MaxMarketingIdx.                                                  *)
MaxPriceIdx == 3
MaxMarketingIdx == 4

PriceStride == 15 * PriceStep

MarketingStride == MarketingMax \div 4

(* Prices outside the grid: 0; the widget default; 357 (attendance exactly *)
(* 90% of the smallest venue under 'Competitor Event'); 571 and 572 (base  *)
(* demand 1.5 and 0).                                                      *)
Prices ==
    {PriceMin + PriceStride * i : i \in 0..MaxPriceIdx} \cup {0, PriceDefault, 357, 571, 572}

(* Budgets outside the grid: the widget default and 36500 (profit exactly  *)
(* 200000 in a sold-out 'Grand Hall').                                     *)
Marketings ==
    {MarketingStride * i : i \in 0..MaxMarketingIdx} \cup {MarketingDefault, 36500}

\* A label that is a key of no table.
UnknownLabel == "Rooftop"

Decisions ==
    [Venue     : DOMAIN VENUES_LITERAL \cup {UnknownLabel},
     Catering  : DOMAIN CATERING_LITERAL \cup {UnknownLabel},
     Staffing  : DOMAIN STAFFING_LITERAL \cup {UnknownLabel},
     Price     : Prices,
     Marketing : Marketings,
     Risk      : DOMAIN RISKS_LITERAL \cup {UnknownLabel}]

----------------------------------------------------------------------------
(* Arithmetic helpers.                                                     *)

Max(a, b) == IF a >= b THEN a ELSE b

Min(a, b) == IF a <= b THEN a ELSE b

\* floor(sqrt(n)) for a natural n.
RECURSIVE Isqrt(_)
Isqrt(n) ==
    IF n < 2 THEN n
    ELSE LET s == 2 * Isqrt(n \div 4)
         IN  IF (s + 1) * (s + 1) <= n THEN s + 1 ELSE s

(* One decimal digit of a square root: from r = floor(sqrt(N)) and         *)
(* rem = N - r*r to floor(sqrt(100*N)) and its remainder.                  *)
SqrtDigit(pr) ==
    LET r   == pr[1]
        rem == pr[2]
        d   == CHOOSE e \in 0..9 :
                   /\ (20 * r + e) * e <= 100 * rem
                   /\ \A f \in (e + 1)..9 : (20 * r + f) * f > 100 * rem
    IN  <<10 * r + d, 100 * rem - (20 * r + d) * d>>

(* <<floor(1000 * sqrt(n)), remainder>>; the remainder is 0 exactly when   *)
(* sqrt(n) is an integer.                                                  *)
SqrtMilli(n) ==
    LET r0 == Isqrt(n)
    IN  SqrtDigit(SqrtDigit(SqrtDigit(<<r0, n - r0 * r0>>)))

\* The largest power of two strictly below n (n >= 2).
RECURSIVE Pow2Below(_)
Pow2Below(n) == IF n <= 2 THEN 1 ELSE 2 * Pow2Below((n + 1) \div 2)

(* How far the double nearest to mult/10 lies below mult/10, in tenths of  *)
(* 2^-53: 0.7 is stored as 0.7 - 0.4 * 2^-53, 0.6 as 0.6 - 0.2 * 2^-53,    *)
(* 1.0 and 1.5 are exact.                                                  *)
DoubleDeficit(mult) == CASE mult = 7 -> 4 [] mult = 6 -> 2 [] OTHER -> 0

----------------------------------------------------------------------------
(* run_simulation, line by line.                                           *)

(* mult/10 * max(0, 2000 - 3.5*price + 0.04*marketing + 10*sqrt(marketing))*)
(* in thousandths, rounded down.  With A = 100 * (2000 - 3.5p + 0.04m) the *)
(* value is max(0, mult*A + 1000*mult*sqrt(m)) / 1000, and                 *)
(* 1000*mult*sqrt(m) = 1000*sqrt(mult^2 * m).                              *)
\* Variant of ScaledDemand with the price term added instead of subtracted.
ScaledDemand_price_added(price, marketing, mult) ==
    LET A == 200000 + 350 * price + 4 * marketing
        s == SqrtMilli(mult * mult * marketing)
    IN  [milli |-> Max(0, mult * A + s[1]), exact |-> s[2] = 0]

ScaledDemand(price, marketing, mult) ==
    LET A == 200000 - 350 * price + 4 * marketing
        s == SqrtMilli(mult * mult * marketing)
    IN  [milli |-> Max(0, mult * A + s[1]), exact |-> s[2] = 0]

\* Line 75: base_demand, in thousandths.
base_demand(price, marketing) == ScaledDemand(price, marketing, 10).milli

(* Line 78: risk_demand = base_demand * DemandMult, in thousandths.  When  *)
(* the real product is a whole number n, the double product falls one ulp  *)
(* short of n if the multiplier's double lies far enough below its decimal *)
(* value (n * deficit > mult * 2^j for the power of two 2^j below n); the  *)
(* thousandths of that double are 1000*n - 1.                              *)
risk_demand(price, marketing, mult) ==
    LET d == ScaledDemand(price, marketing, mult)
        n == d.milli \div 1000
    IN  IF /\ d.exact
           /\ d.milli % 1000 = 0
           /\ n >= 2
           /\ n * DoubleDeficit(mult) > mult * Pow2Below(n)
        THEN d.milli - 1
        ELSE d.milli

\* Lines 81-82: attendance = int(min(risk_demand, Capacity)), from the demand
\* in thousandths.
\* Variant without the capacity constraint of line 81.
attendance_uncapped(demand, capacity) == demand \div 1000

\* Lines 81-82.
attendance(demand, capacity) == Min(demand, 1000 * capacity) \div 1000

\* Line 91: num_staff = ceil((attendance / 100) * Ratio).
\* Variant rounding down.
num_staff_floor(att, ratio) == (att * ratio) \div 100

\* Line 91.
num_staff(att, ratio) == (att * ratio + 99) \div 100

\* Line 98, times 100 as returned on line 117, in hundredths of a percent.
\* Variant without the "* 100" of line 117.
crowding_fraction(att, capacity) == IF capacity > 0 THEN (100 * att) \div capacity ELSE 0

\* Lines 98 and 117.
crowding(att, capacity) == IF capacity > 0 THEN (10000 * att) \div capacity ELSE 0

\* Line 99: 15 if crowding > 0.9 else 0.
\* Variant with crowding >= 0.9.
crowding_penalty_inclusive(att, capacity) ==
    IF capacity > 0 /\ 10 * att >= 9 * capacity THEN 15 ELSE 0

\* Line 99.
crowding_penalty(att, capacity) ==
    IF capacity > 0 /\ 10 * att > 9 * capacity THEN 15 ELSE 0

\* Lines 101-103: sat_score before the clamp, in tenths.
\* Variant adding the crowding penalty instead of subtracting it.
sat_unclamped_added(venue, cat, staff, risk, penalty) ==
    33 * venue.Vibe + 33 * cat.Quality + 80 * staff.Ratio + 10 * penalty
        + 10 * risk.SatPenalty

\* Lines 101-103.
sat_unclamped(venue, cat, staff, risk, penalty) ==
    33 * venue.Vibe + 33 * cat.Quality + 80 * staff.Ratio - 10 * penalty
        + 10 * risk.SatPenalty

\* Line 104: sat_score = min(100, max(0, sat_score)), in tenths.
sat_clamp(s) == Min(1000, Max(0, s))

\* Line 108: score = max(0, profit) / 200000 * 50 + sat_score * 0.5, in 1/4000.
\* Variant capping the profit component at 50 points.
score_capped(profit, sat) == Min(200000, Max(0, profit)) + 200 * sat

\* Variant without max(0, profit).
score_signed(profit, sat) == profit + 200 * sat

\* Line 108.
score(profit, sat) == Max(0, profit) + 200 * sat

\* Lines 70-124 once the four labels are resolved.
Outcome(venue, cat, staff, risk, price, marketing) ==
    LET att            == attendance(risk_demand(price, marketing, risk.DemandMult),
                                     venue.Capacity)
        revenue        == att * price
        venue_cost     == venue.FixedCost
        marketing_cost == marketing
        catering_cost  == att * cat.Cost
        staff_cost     == num_staff(att, staff.Ratio) * staff.CostPer
        total_cost     == venue_cost + marketing_cost + catering_cost + staff_cost
        profit         == revenue - total_cost
        sat_score      == sat_clamp(sat_unclamped(venue, cat, staff, risk,
                                        crowding_penalty(att, venue.Capacity)))
    IN  [status       |-> "returned",
         Attendance   |-> att,
         Revenue      |-> revenue,
         TotalCost    |-> total_cost,
         Profit       |-> profit,
         Satisfaction |-> sat_score,
         Score        |-> score(profit, sat_score),
         Crowding     |-> crowding(att, venue.Capacity),
         Details      |-> [VenueCost     |-> venue_cost,
                           MarketingCost |-> marketing_cost,
                           CateringCost  |-> catering_cost,
                           StaffCost     |-> staff_cost]]

\* table[key] of a dict: the entry, or KeyError(key).
\* Variant falling back to an entry of the table for an unknown key.
SubscriptOrFirst(table, key) ==
    IF key \in DOMAIN table
    THEN [ok |-> TRUE, val |-> table[key]]
    ELSE [ok |-> TRUE, val |-> table[CHOOSE k \in DOMAIN table : TRUE]]

\* Lines 65-68.
Subscript(table, key) ==
    IF key \in DOMAIN table
    THEN [ok |-> TRUE, val |-> table[key]]
    ELSE [ok |-> FALSE, key |-> key]

KeyError(key) == [status |-> "KeyError", key |-> key]

\* Lines 63-124.  The four lookups come first, in this order.
run_simulation(inp) ==
    LET venue == Subscript(VENUES, inp.Venue)
        cat   == Subscript(CATERING, inp.Catering)
        staff == Subscript(STAFFING, inp.Staffing)
        risk  == Subscript(RISKS, inp.Risk)
    IN  IF ~venue.ok THEN KeyError(venue.key)
        ELSE IF ~cat.ok THEN KeyError(cat.key)
        ELSE IF ~staff.ok THEN KeyError(staff.key)
        ELSE IF ~risk.ok THEN KeyError(risk.key)
        ELSE Outcome(venue.val, cat.val, staff.val, risk.val, inp.Price, inp.Marketing)

----------------------------------------------------------------------------
(* Specification Spec: one call of run_simulation on a decision drawn from *)
(* Decisions.                                                              *)

NotCalled == [status |-> "pending"]

TablesInit ==
    /\ VENUES = VENUES_LITERAL
    /\ CATERING = CATERING_LITERAL
    /\ STAFFING = STAFFING_LITERAL
    /\ RISKS = RISKS_LITERAL

Init ==
    /\ TablesInit
    /\ inputs \in Decisions
    /\ results = NotCalled

Call ==
    /\ results = NotCalled
    /\ results' = run_simulation(inputs)
    /\ UNCHANGED <<tables, inputs>>

Next == Call

Spec == Init /\ [][Next]_vars

----------------------------------------------------------------------------
(* Specification SpecSession: the Streamlit script.  Every widget change   *)
(* re-runs the script top to bottom: the inputs dict is rebuilt from the   *)
(* widgets and results = run_simulation(inputs) is computed again.         *)

\* Variant that keeps an outcome once computed.
RerunKeepingFirst(prev, inp) ==
    IF prev.status = "returned" THEN prev ELSE run_simulation(inp)

\* Line 175.
Rerun(prev, inp) == run_simulation(inp)

SliderPrices ==
    {p \in Prices : p >= PriceMin /\ p <= PriceMax /\ (p - PriceMin) % PriceStep = 0}

NumberInputMarketings == {m \in Marketings : m >= MarketingMin /\ m <= MarketingMax}

\* Lines 154-163: the widgets' defaults (index=2, index=1, index=1, 250, 20000, index=0).
DefaultInputs ==
    [Venue |-> "City Center", Catering |-> "Standard Buffet", Staffing |-> "Standard",
     Price |-> PriceDefault, Marketing |-> MarketingDefault, Risk |-> "None (Normal)"]

InitSession ==
    /\ TablesInit
    /\ inputs = DefaultInputs
    /\ results = Rerun(NotCalled, DefaultInputs)

Script(new) ==
    /\ inputs' = new
    /\ results' = Rerun(results, new)
    /\ UNCHANGED tables

SetVenue == \E v \in DOMAIN VENUES : Script([inputs EXCEPT !.Venue = v])

SetCatering == \E c \in DOMAIN CATERING : Script([inputs EXCEPT !.Catering = c])

SetStaffing == \E s \in DOMAIN STAFFING : Script([inputs EXCEPT !.Staffing = s])

SetPrice == \E p \in SliderPrices : Script([inputs EXCEPT !.Price = p])

SetMarketing == \E m \in NumberInputMarketings : Script([inputs EXCEPT !.Marketing = m])

SetRisk == \E r \in DOMAIN RISKS : Script([inputs EXCEPT !.Risk = r])

NextSession ==
    \/ SetVenue
    \/ SetCatering
    \/ SetStaffing
    \/ SetPrice
    \/ SetMarketing
    \/ SetRisk

SpecSession == InitSession /\ [][NextSession]_vars

----------------------------------------------------------------------------
(* Properties.                                                             *)

Returned == results.status = "returned"

ValidLabels(inp) ==
    /\ inp.Venue \in DOMAIN VENUES_LITERAL
    /\ inp.Catering \in DOMAIN CATERING_LITERAL
    /\ inp.Staffing \in DOMAIN STAFFING_LITERAL
    /\ inp.Risk \in DOMAIN RISKS_LITERAL

\* The decision of the worked scenario (it is also the widgets' default).
Scenario ==
    [Venue |-> "City Center", Catering |-> "Standard Buffet", Staffing |-> "Standard",
     Price |-> 250, Marketing |-> 20000, Risk |-> "None (Normal)"]

\* C1: for every decision with valid labels and non-negative price and
\* marketing, run_simulation returns an integer Attendance with
\* 0 <= Attendance <= Capacity of the selected venue.
C1_AttendanceWithinCapacity ==
    (results # NotCalled /\ ValidLabels(inputs)) =>
        /\ Returned
        /\ results.Attendance \in Int
        /\ results.Attendance >= 0
        /\ results.Attendance <= VENUES_LITERAL[inputs.Venue].Capacity

\* C1 witness: under 'Viral Buzz' the demand exceeds the capacity and the
\* attendance returned is the capacity.
C1_Witness ==
    /\ Returned
    /\ inputs.Risk = "Viral Buzz"
    /\ risk_demand(inputs.Price, inputs.Marketing, 15)
           > 1000 * VENUES_LITERAL[inputs.Venue].Capacity
    /\ results.Attendance = VENUES_LITERAL[inputs.Venue].Capacity

\* C2 as stated: the scenario's Score is 75.25 (301000 / 4000).
C2_ScenarioScoreAsStated ==
    (Returned /\ inputs = Scenario) => results.Score = 301000

\* C2 as amended: the scenario's Score is 119.0 (476000 / 4000): the profit
\* of 375000 contributes 93.75, not 50, and the satisfaction 25.25.
C2_ScenarioScore ==
    (results # NotCalled /\ inputs = Scenario) =>
        /\ Returned
        /\ results.Score = 476000

\* C2 witness: the scenario has been evaluated and its profit is above the
\* 200000 at which the profit component is 50.
C2_Witness ==
    /\ Returned
    /\ inputs = Scenario
    /\ results.Profit > 200000

\* C3: the scenario returns Attendance 2000, Revenue 500000, Venue Cost
\* 25000, Marketing Cost 20000, Catering Cost 70000, Staff Cost 10000
\* (40 staff of 250), Total Cost 125000, Profit 375000, Crowding 100 and
\* Satisfaction 50.5 (the crowding penalty of 15 applied to 65.5).
C3_ScenarioOutcome ==
    (results # NotCalled /\ inputs = Scenario) =>
        /\ Returned
        /\ results.Attendance = 2000
        /\ results.Revenue = 500000
        /\ results.Details.VenueCost = 25000
        /\ results.Details.MarketingCost = 20000
        /\ results.Details.CateringCost = 70000
        /\ results.Details.StaffCost = 10000
        /\ results.Details.StaffCost = 40 * STAFFING_LITERAL["Standard"].CostPer
        /\ results.TotalCost = 125000
        /\ results.Profit = 375000
        /\ results.Crowding = 10000
        /\ results.Satisfaction = 505

\* C3 witness: the scenario has been evaluated and the venue is sold out.
C3_Witness ==
    /\ Returned
    /\ inputs = Scenario
    /\ results.Attendance = VENUES_LITERAL["City Center"].Capacity

\* C4: Score = max(0, Profit)/200000*50 + Satisfaction*0.5 with no upper
\* clamp: the profit component is 0 for Profit <= 0, exactly 50 for
\* Profit = 200000, Profit/4000 above that, and Score >= 0.
C4_ScoreFormula ==
    Returned =>
        LET component == results.Score - 200 * results.Satisfaction
        IN  /\ results.Profit <= 0 => component = 0
            /\ results.Profit = 200000 => component = 50 * 4000
            /\ results.Profit > 0 => component = results.Profit
            /\ results.Score >= 0

\* C4 witness: a decision whose Score exceeds 100.
C4_Witness ==
    /\ Returned
    /\ results.Profit > 200000
    /\ results.Score > 100 * 4000

\* C5: 0 <= Satisfaction <= 100, and Satisfaction is
\* Vibe*3.3 + Quality*3.3 + Ratio*8 - crowdingPenalty + SatPenalty clamped
\* into [0, 100].
C5_SatisfactionClamped ==
    (results # NotCalled /\ ValidLabels(inputs)) =>
        LET venue   == VENUES_LITERAL[inputs.Venue]
            cat     == CATERING_LITERAL[inputs.Catering]
            staff   == STAFFING_LITERAL[inputs.Staffing]
            risk    == RISKS_LITERAL[inputs.Risk]
            penalty == IF 10 * results.Attendance > 9 * venue.Capacity THEN 15 ELSE 0
            raw     == 33 * venue.Vibe + 33 * cat.Quality + 80 * staff.Ratio
                           - 10 * penalty + 10 * risk.SatPenalty
        IN  /\ Returned
            /\ results.Satisfaction >= 0
            /\ results.Satisfaction <= 1000
            /\ results.Satisfaction = (IF raw < 0 THEN 0 ELSE IF raw > 1000 THEN 1000 ELSE raw)

\* C5 witness: the lowest satisfaction of the shipped tables (9.4): a
\* crowded 'Tech Hub' with 'Basic Snacks' and a 'Skeleton Crew' in 'Heavy Rain'.
C5_Witness ==
    /\ Returned
    /\ inputs.Venue = "Tech Hub"
    /\ inputs.Catering = "Basic Snacks"
    /\ inputs.Staffing = "Skeleton Crew"
    /\ inputs.Risk = "Heavy Rain"
    /\ 10 * results.Attendance > 9 * VENUES_LITERAL["Tech Hub"].Capacity
    /\ results.Satisfaction = 94

\* The satisfaction before the clamp that run_simulation computes for the
\* labels of inp at attendance att.
UnclampedAt(inp, att) ==
    sat_unclamped(VENUES[inp.Venue], CATERING[inp.Catering], STAFFING[inp.Staffing],
                  RISKS[inp.Risk], crowding_penalty(att, VENUES[inp.Venue].Capacity))

\* C6: the crowding penalty is a step function of Attendance/Capacity: of
\* two decisions that differ only in price and marketing, the one with
\* 10*Attendance > 9*Capacity has an unclamped satisfaction exactly 15 lower
\* than the one at or below 0.9 (0.9 itself included), and two on the same
\* side have the same unclamped satisfaction.
C6_CrowdingStep ==
    (Returned /\ ValidLabels(inputs)) =>
        LET cap        == VENUES_LITERAL[inputs.Venue].Capacity
            here       == results.Attendance
            Crowded(a) == 10 * a > 9 * cap
            base       == 33 * VENUES_LITERAL[inputs.Venue].Vibe
                              + 33 * CATERING_LITERAL[inputs.Catering].Quality
                              + 80 * STAFFING_LITERAL[inputs.Staffing].Ratio
                              + 10 * RISKS_LITERAL[inputs.Risk].SatPenalty
        IN  /\ results.Satisfaction = sat_clamp(UnclampedAt(inputs, here))
            /\ UnclampedAt(inputs, here) = base - (IF Crowded(here) THEN 150 ELSE 0)
            /\ \A p \in Prices, m \in Marketings :
                   LET there == run_simulation(
                                    [inputs EXCEPT !.Price = p, !.Marketing = m]).Attendance
                       diff  == UnclampedAt(inputs, there) - UnclampedAt(inputs, here)
                   IN  /\ (Crowded(here) /\ ~Crowded(there)) => diff = 150
                       /\ (Crowded(here) <=> Crowded(there)) => diff = 0

\* C6 witness: attendance 450 at capacity 500, exactly 0.9, evaluated next
\* to a decision of the same labels that is above 0.9.
C6_Witness ==
    /\ Returned
    /\ ValidLabels(inputs)
    /\ results.Attendance = 450
    /\ VENUES_LITERAL[inputs.Venue].Capacity = 500
    /\ \E p \in Prices :
           LET there == run_simulation([inputs EXCEPT !.Price = p]).Attendance
           IN  /\ 10 * there > 9 * 500
               /\ UnclampedAt(inputs, results.Attendance) - UnclampedAt(inputs, there) = 150

\* The label run_simulation looks up first among the unknown ones.
FirstUnknown(inp) ==
    IF inp.Venue \notin DOMAIN VENUES_LITERAL THEN inp.Venue
    ELSE IF inp.Catering \notin DOMAIN CATERING_LITERAL THEN inp.Catering
    ELSE IF inp.Staffing \notin DOMAIN STAFFING_LITERAL THEN inp.Staffing
    ELSE inp.Risk

\* C7: with a label that is a key of no table, run_simulation raises
\* KeyError on the lookup: no outcome field is returned, no default entry
\* stands in for the label, and the tables are unchanged.
C7_UnknownLabelRaises ==
    (results # NotCalled /\ ~ValidLabels(inputs)) =>
        /\ results = KeyError(FirstUnknown(inputs))
        /\ DOMAIN results = {"status", "key"}
        /\ VENUES = VENUES_LITERAL
        /\ CATERING = CATERING_LITERAL
        /\ STAFFING = STAFFING_LITERAL
        /\ RISKS = RISKS_LITERAL

\* C7 witness: three lookups succeed and the last one, the risk, fails.
C7_Witness ==
    /\ results.status = "KeyError"
    /\ inputs.Venue \in DOMAIN VENUES_LITERAL
    /\ inputs.Catering \in DOMAIN CATERING_LITERAL
    /\ inputs.Staffing \in DOMAIN STAFFING_LITERAL
    /\ inputs.Risk = UnknownLabel
    /\ results.key = UnknownLabel

\* C8: base demand never rises with the price and never falls with the
\* marketing budget, and neither does the Attendance returned.
C8_DemandMonotone ==
    (Returned /\ ValidLabels(inputs)) =>
        /\ \A p \in Prices :
               p >= inputs.Price =>
                   /\ base_demand(p, inputs.Marketing)
                          <= base_demand(inputs.Price, inputs.Marketing)
                   /\ run_simulation([inputs EXCEPT !.Price = p]).Attendance
                          <= results.Attendance
        /\ \A m \in Marketings :
               m >= inputs.Marketing =>
                   /\ base_demand(inputs.Price, m)
                          >= base_demand(inputs.Price, inputs.Marketing)
                   /\ run_simulation([inputs EXCEPT !.Marketing = m]).Attendance
                          >= results.Attendance

\* C8 witness: a decision next to which a higher price gives a strictly
\* lower attendance and a higher budget a strictly higher one.
C8_Witness ==
    /\ Returned
    /\ ValidLabels(inputs)
    /\ \E p \in Prices :
           /\ p > inputs.Price
           /\ base_demand(p, inputs.Marketing) < base_demand(inputs.Price, inputs.Marketing)
           /\ run_simulation([inputs EXCEPT !.Price = p]).Attendance < results.Attendance
    /\ \E m \in Marketings :
           /\ m > inputs.Marketing
           /\ base_demand(inputs.Price, m) > base_demand(inputs.Price, inputs.Marketing)
           /\ run_simulation([inputs EXCEPT !.Marketing = m]).Attendance > results.Attendance

\* C9: Staff Cost = ceil(Attendance * Ratio / 100) * CostPer: the staff
\* count n is the least integer with 100*n >= Attendance*Ratio, at least 1
\* for any attendance of at least 1, and 0 (Staff Cost 0) for attendance 0.
C9_StaffCeiling ==
    (Returned /\ ValidLabels(inputs)) =>
        LET staff == STAFFING_LITERAL[inputs.Staffing]
            n     == results.Details.StaffCost \div staff.CostPer
            need  == results.Attendance * staff.Ratio
        IN  /\ results.Details.StaffCost = n * staff.CostPer
            /\ 100 * n >= need
            /\ 100 * (n - 1) < need
            /\ results.Attendance >= 1 => n >= 1
            /\ results.Attendance = 0 => results.Details.StaffCost = 0

\* C9 witness: attendance 1 with Ratio 1 costs one staff member.
C9_Witness ==
    /\ Returned
    /\ results.Attendance = 1
    /\ inputs.Staffing = "Skeleton Crew"
    /\ results.Details.StaffCost = STAFFING_LITERAL["Skeleton Crew"].CostPer

\* C10: over any sequence of widget changes, the tables are the ones the
\* module defined and the outcome shown is the evaluation of the current
\* decision alone, whatever was evaluated before.
C10_HistoryFree ==
    /\ VENUES = VENUES_LITERAL
    /\ CATERING = CATERING_LITERAL
    /\ STAFFING = STAFFING_LITERAL
    /\ RISKS = RISKS_LITERAL
    /\ results = Outcome(VENUES_LITERAL[inputs.Venue], CATERING_LITERAL[inputs.Catering],
                         STAFFING_LITERAL[inputs.Staffing], RISKS_LITERAL[inputs.Risk],
                         inputs.Price, inputs.Marketing)

\* C10 witness: all six inputs differ from the widgets' defaults, so at
\* least six other decisions were evaluated before the current one.
C10_Witness ==
    /\ Returned
    /\ inputs.Venue # DefaultInputs.Venue
    /\ inputs.Catering # DefaultInputs.Catering
    /\ inputs.Staffing # DefaultInputs.Staffing
    /\ inputs.Price # DefaultInputs.Price
    /\ inputs.Marketing # DefaultInputs.Marketing
    /\ inputs.Risk # DefaultInputs.Risk
    /\ results = run_simulation(inputs)

============================================================================
